---- MODULE Spec2Model ----
(***************************************************************************)
(* Goal lifecycle of weigh-point: the Goal Completion Detector that runs   *)
(* when an entry is created (hooks/useEntries.ts, useCreateEntry) and the  *)
(* Goal Revalidator that runs after an entry is edited or deleted          *)
(* (lib/goalRevalidation.ts), over the entries and goals tables of the     *)
(* store (lib/api.ts and supabase/migrations).                             *)
(*                                                                         *)
(* One user.  Ids are row numbers: entry i is entries[i], goal g is        *)
(* goals[g]; a deleted entry keeps its slot with live = FALSE, so ids are  *)
(* never reused (gen_random_uuid).  Timestamps are instants 1..MaxTime;    *)
(* every timestamp the code compares was returned by the store, so equal   *)
(* instants are equal strings.  Null is SQL NULL / JS null.                *)
(***************************************************************************)
EXTENDS Integers, Sequences, FiniteSets, TLC

MaxEntries == 3
MaxGoals == 2
MaxGoalsWide == 3
MaxTime == 2
MaxWeight == 2
MaxProbe == 4

Null == 0
RevalidationLimit == 1000

Weights == 1..MaxWeight
Times == 1..MaxTime

VARIABLES entries, goals, activeGoal, lastOp, probe, pending

vars == <<entries, goals, activeGoal, lastOp, probe, pending>>

\* A row of the entries table after its deletion.
DeletedEntry == [live |-> FALSE, weight |-> 0, recorded_at |-> 0]

EntryIds(es) == {i \in 1..Len(es) : es[i].live}

GoalIds(gs) == 1..Len(gs)

Min(a, b) == IF a <= b THEN a ELSE b

(***************************************************************************)
(* The completion predicate, once per copy in the source.                  *)
(***************************************************************************)

\* useEntries.ts:120-123, the Detector's copy (activeGoal, newEntry).
isGoalAchieved(start_weight, target_weight, weight) ==
  LET isLossGoal == start_weight > target_weight
  IN  IF isLossGoal THEN weight <= target_weight ELSE weight >= target_weight

\* useEntries.ts:113-125: guard on start_weight, then the predicate.
DetectorCompletes(start_weight, target_weight, weight) ==
  IF start_weight <= 0 THEN FALSE
  ELSE isGoalAchieved(start_weight, target_weight, weight)

\* useGoalCompletion.checkGoalCompletion: !start_weight || start_weight <= 0
\* returns early, otherwise the same comparison decides completeGoal.mutate.
checkGoalCompletion(start_weight, target_weight, weight) ==
  IF start_weight = 0 \/ start_weight <= 0 THEN FALSE
  ELSE LET isLossGoal == start_weight > target_weight
       IN  IF isLossGoal THEN weight <= target_weight
           ELSE weight >= target_weight

\* The Revalidator's copy with a strict comparison for a loss goal.
meetsGoalStrict(start_weight, target_weight, weight) ==
  LET isLossGoal == start_weight > target_weight
  IN  IF isLossGoal THEN weight < target_weight ELSE weight >= target_weight

\* goalRevalidation.ts:111-117, the Revalidator's copy; it has no guard.
meetsGoal(start_weight, target_weight, weight) ==
  LET isLossGoal == start_weight > target_weight
  IN  IF isLossGoal THEN weight <= target_weight ELSE weight >= target_weight

(***************************************************************************)
(* The store: tables entries and goals with their constraints.             *)
(***************************************************************************)

\* idx_goals_user_active: at most one row with status = 'active'.
ActiveGoals(gs) == {g \in GoalIds(gs) : gs[g].status = "active"}

\* api.getActiveGoal: the active row, or null (maybeSingle).
getActiveGoal(gs) ==
  IF ActiveGoals(gs) = {} THEN Null ELSE CHOOSE g \in ActiveGoals(gs) : TRUE

\* completed_entry_id REFERENCES entries(id): no action on delete, so a
\* referenced entry cannot be deleted and a missing one cannot be named.
Referenced(gs, id) == \E g \in GoalIds(gs) : gs[g].completed_entry_id = id

\* The UPDATE to status 'active' without the index.
RevertAcceptedAlways(gs, g) == g \in GoalIds(gs)

\* An UPDATE of goal g to status 'active' passes idx_goals_user_active only
\* if no other row of the user is active.
RevertAccepted(gs, g) == ActiveGoals(gs) \subseteq {g}

\* An UPDATE that names entry id as completed_entry_id passes the foreign key
\* only if the entry exists.
CompletionAccepted(es, id) == id \in EntryIds(es)

\* The same UPDATE filtered by user only: every goal row of the user takes
\* the payload.
WriteCompletedForUser(gs, g, id, at) ==
  [h \in DOMAIN gs |-> [gs[h] EXCEPT !.status = "completed",
                                     !.completed_at = at,
                                     !.completed_entry_id = id]]

\* api.completeGoal / api.updateGoalCompletion: the same payload, by goal id.
WriteCompleted(gs, g, id, at) ==
  [gs EXCEPT ![g].status = "completed",
             ![g].completed_at = at,
             ![g].completed_entry_id = id]

\* A revert that sets the status alone.
WriteActiveStatusOnly(gs, g) == [gs EXCEPT ![g].status = "active"]

\* api.revertGoalToActive.
WriteActive(gs, g) ==
  [gs EXCEPT ![g].status = "active",
             ![g].completed_at = Null,
             ![g].completed_entry_id = Null]

\* created_at DEFAULT NOW(): the wall clock never runs backwards, so a new
\* goal is created no earlier than the goals before it.
Now(gs) ==
  IF Len(gs) = 0 THEN Times ELSE {t \in Times : t >= gs[Len(gs)].created_at}

\* All orders of a finite set, as sequences.
Perms(S) ==
  {f \in [1..Cardinality(S) -> S] : \A i, j \in DOMAIN f : i # j => f[i] # f[j]}

\* api.getEntries(userId, {limit}): the user's rows ordered by recorded_at
\* descending, cut to the first limit rows.  The order among rows with equal
\* recorded_at is the store's choice, so every such order is a possible result.
getEntries(es, limit) ==
  {SubSeq(f, 1, Min(limit, Len(f))) :
     f \in {p \in Perms(EntryIds(es)) :
              \A i, j \in DOMAIN p :
                 i < j => es[p[i]].recorded_at >= es[p[j]].recorded_at}}

\* getCompletedGoals without the filter on completed_entry_id: every
\* completed goal counts as affected.
affectedGoalsAll(gs, affectedEntryId) ==
  LET hit == {g \in GoalIds(gs) : gs[g].status = "completed"}
  IN  {p \in Perms(hit) :
         \A i, j \in DOMAIN p :
            i < j => gs[p[i]].completed_at >= gs[p[j]].completed_at}

\* api.getCompletedGoals ordered by completed_at descending, then the filter
\* completed_entry_id === affectedEntryId (goalRevalidation.ts:33-46).  Each
\* result is one possible processing order of the affected goals.
affectedGoals(gs, affectedEntryId) ==
  LET hit == {g \in GoalIds(gs) : /\ gs[g].status = "completed"
                                  /\ gs[g].completed_entry_id = affectedEntryId}
  IN  {p \in Perms(hit) :
         \A i, j \in DOMAIN p :
            i < j => gs[p[i]].completed_at >= gs[p[j]].completed_at}

(***************************************************************************)
(* The Revalidator (lib/goalRevalidation.ts).                              *)
(***************************************************************************)

\* The filter callback without the comparison of recorded_at and created_at.
eligibleAnyDate(goal, es, id, modifiedEntry) ==
  LET replaced == id = goal.completed_entry_id
      entry == IF replaced /\ modifiedEntry.live THEN modifiedEntry
               ELSE es[id]
  IN  IF replaced /\ ~modifiedEntry.live THEN FALSE
      ELSE meetsGoal(goal.start_weight, goal.target_weight, entry.weight)

\* The filter callback of revalidateSingleGoal (lines 93-118) for the row id
\* of allEntries: the row named by goal.completed_entry_id is dropped when
\* modifiedEntry is null and judged by modifiedEntry's values otherwise.  A
\* null modifiedEntry is the record DeletedEntry (live = FALSE).
eligible(goal, es, id, modifiedEntry) ==
  LET replaced == id = goal.completed_entry_id
      entry == IF replaced /\ modifiedEntry.live THEN modifiedEntry
               ELSE es[id]
  IN  IF replaced /\ ~modifiedEntry.live THEN FALSE
      ELSE IF entry.recorded_at < goal.created_at THEN FALSE
      ELSE meetsGoal(goal.start_weight, goal.target_weight, entry.weight)

\* allEntries.filter(...): filter keeps the rows of allEntries themselves, in
\* their order (the callback's reassignment of entry is local to it).
eligibleEntries(goal, es, allEntries, modifiedEntry) ==
  SelectSeq(allEntries, LAMBDA id : eligible(goal, es, id, modifiedEntry))

\* The latest instead of the earliest eligible entry.
latestEntry(es, eligibleSeq) ==
  LET top == CHOOSE i \in DOMAIN eligibleSeq :
               \A j \in DOMAIN eligibleSeq :
                  es[eligibleSeq[j]].recorded_at <= es[eligibleSeq[i]].recorded_at
  IN  eligibleSeq[top]

\* eligibleEntries.sort(by recorded_at ascending)[0] (lines 125-128): the sort
\* is stable, so among the rows with the least recorded_at the one that comes
\* first in eligibleEntries is taken.
earliestEntry(es, eligibleSeq) ==
  LET least == {i \in DOMAIN eligibleSeq :
                  \A j \in DOMAIN eligibleSeq :
                     es[eligibleSeq[i]].recorded_at <= es[eligibleSeq[j]].recorded_at}
      first == CHOOSE i \in least : \A j \in least : i <= j
  IN  eligibleSeq[first]

\* The decision with needsUpdate reduced to the comparison of the entry ids.
decideById(goal, g, es, allEntries, modifiedEntry) ==
  LET eligibleSeq == eligibleEntries(goal, es, allEntries, modifiedEntry)
  IN  IF Len(eligibleSeq) = 0
      THEN [goal |-> g, action |-> "revert", entry |-> Null, at |-> Null]
      ELSE LET e == earliestEntry(es, eligibleSeq)
           IN  [goal |-> g,
                action |-> IF goal.completed_entry_id # e THEN "update"
                           ELSE "keep",
                entry |-> e, at |-> es[e].recorded_at]

\* revalidateSingleGoal's decision for one goal as read (lines 120-138):
\* revert, update the completion details, or keep (needsUpdate is false).
decide(goal, g, es, allEntries, modifiedEntry) ==
  LET eligibleSeq == eligibleEntries(goal, es, allEntries, modifiedEntry)
  IN  IF Len(eligibleSeq) = 0
      THEN [goal |-> g, action |-> "revert", entry |-> Null, at |-> Null]
      ELSE LET e == earliestEntry(es, eligibleSeq)
               needsUpdate == \/ goal.completed_entry_id # e
                              \/ goal.completed_at # es[e].recorded_at
           IN  [goal |-> g,
                action |-> IF needsUpdate THEN "update" ELSE "keep",
                entry |-> e, at |-> es[e].recorded_at]

\* One store write of the Revalidator (revertGoalToActive and
\* updateGoalCompletion, lines 144-179): whether the store accepts it.  An
\* error result and a thrown exception are both logged and swallowed.
writeAccepted(gs, es, d, faults) ==
  /\ d.goal \notin faults
  /\ IF d.action = "revert" THEN RevertAccepted(gs, d.goal)
     ELSE CompletionAccepted(es, d.entry)

\* The goals table after the write of decision d.
applyDecision(gs, es, d, faults) ==
  IF d.action = "keep" \/ ~writeAccepted(gs, es, d, faults) THEN gs
  ELSE IF d.action = "revert" THEN WriteActive(gs, d.goal)
  ELSE WriteCompleted(gs, d.goal, d.entry, d.at)

\* The record of one decision and of its write.
logged(gs, es, d, faults) ==
  [goal |-> d.goal, action |-> d.action, entry |-> d.entry, at |-> d.at,
   ok |-> d.action # "keep" /\ writeAccepted(gs, es, d, faults)]

\* for (const goal of affectedGoals) await revalidateSingleGoal(...)
\* (lines 68-71): the goals are decided on the rows read at the start of the
\* pass (read) and written to the store one after the other.
RECURSIVE revalidateEach(_, _, _, _, _, _, _, _)
revalidateEach(gs, read, es, order, i, allEntries, modifiedEntry, faults) ==
  IF i > Len(order) THEN [goals |-> gs, log |-> <<>>]
  ELSE LET d == decide(read[order[i]], order[i], es, allEntries, modifiedEntry)
           rest == revalidateEach(applyDecision(gs, es, d, faults), read, es,
                                  order, i + 1, allEntries, modifiedEntry,
                                  faults)
       IN  [goals |-> rest.goals,
            log |-> <<logged(gs, es, d, faults)>> \o rest.log]

\* revalidateGoals (lines 26-76) with the processing order of the affected
\* goals and the rows of getEntries as delivered by the store.
revalidateGoals(gs, es, order, allEntries, modifiedEntry, faults) ==
  IF Len(order) = 0 THEN [goals |-> gs, log |-> <<>>]
  ELSE revalidateEach(gs, gs, es, order, 1, allEntries, modifiedEntry, faults)

(***************************************************************************)
(* The operations.  Each is the whole handler: the store call of the       *)
(* mutation, its onSuccess with the goal logic it awaits, and the refetch  *)
(* of the activeGoal query that the invalidations cause.                   *)
(*                                                                         *)
(* lastOp is the last run of the goal logic that reached a decision: the   *)
(* Detector with an active goal in hand (kind "create", id the new entry)  *)
(* or a revalidation pass with affected goals (kind "update" or "delete",  *)
(* id the affected entry).  An operation whose goal logic returns before   *)
(* that leaves NoRun.  idle marks a run that left entries and goals as     *)
(* they were.  The operations take the flag track: without it no run is    *)
(* recorded, which keeps the wider exploration SpecWide small.             *)
(***************************************************************************)

NoRun == [kind |-> "none", id |-> Null, idle |-> FALSE]

\* probe is used by SpecPred alone (below); the operations leave it alone.
\* pending holds the handlers in flight of SpecConc (below); the operations
\* here run to their end in one step and leave it empty.
NoProbe == [stage |-> "none"]

Run(kind, id, es, gs, track) ==
  IF track
  THEN [kind |-> kind, id |-> id, idle |-> es = entries /\ gs = goals]
  ELSE NoRun

Init ==
  /\ entries = <<>>
  /\ goals = <<>>
  /\ activeGoal = Null
  /\ lastOp = NoRun
  /\ probe = NoProbe
  /\ pending = {}

\* useCompleteGoal.mutate -> api.completeGoal, with the wall clock for
\* completed_at instead of the entry's recorded_at.
completeGoalNow(gs, es, g, entryId, completedAt, faults) ==
  IF g \in faults \/ ~CompletionAccepted(es, entryId) THEN gs
  ELSE WriteCompleted(gs, g, entryId, CHOOSE t \in Times : t # completedAt)

\* A completion whose failed call has written the goal all the same.
completeGoalForced(gs, es, g, entryId, completedAt, faults) ==
  IF ~CompletionAccepted(es, entryId) THEN gs
  ELSE WriteCompleted(gs, g, entryId, completedAt)

\* useCompleteGoal.mutate({goalId, entryId, completedAt}) -> api.completeGoal.
completeGoal(gs, es, g, entryId, completedAt, faults) ==
  IF g \in faults \/ ~CompletionAccepted(es, entryId) THEN gs
  ELSE WriteCompleted(gs, g, entryId, completedAt)

\* A Detector that completes every goal the new entry satisfies, not only
\* the cached active one.
detectEvery(gs, es, cached, id, faults) ==
  LET hit == {g \in GoalIds(gs) :
                DetectorCompletes(gs[g].start_weight, gs[g].target_weight,
                                  es[id].weight)}
  IN  IF cached # Null /\ cached \in hit
      THEN [goals |-> [g \in DOMAIN gs |->
                         IF g \in hit
                         THEN WriteCompleted(gs, g, id, es[id].recorded_at)[g]
                         ELSE gs[g]],
            log |-> <<[goal |-> cached, action |-> "complete", entry |-> id,
                       at |-> es[id].recorded_at, ok |-> TRUE]>>]
      ELSE [goals |-> gs, log |-> <<>>]

\* The Detector without its predicate: any new entry completes the goal.
detectAlways(gs, es, cached, id, faults) ==
  IF cached # Null
  THEN [goals |-> completeGoal(gs, es, cached, id, es[id].recorded_at, faults),
        log |-> <<[goal |-> cached, action |-> "complete", entry |-> id,
                   at |-> es[id].recorded_at,
                   ok |-> cached \notin faults /\ CompletionAccepted(es, id)]>>]
  ELSE [goals |-> gs, log |-> <<>>]

\* useCreateEntry.onSuccess (useEntries.ts:109-133) for the created row id,
\* against the cached active goal.
detect(gs, es, cached, id, faults) ==
  IF cached # Null /\ DetectorCompletes(gs[cached].start_weight,
                                        gs[cached].target_weight, es[id].weight)
  THEN [goals |-> completeGoal(gs, es, cached, id, es[id].recorded_at, faults),
        log |-> <<[goal |-> cached, action |-> "complete", entry |-> id,
                   at |-> es[id].recorded_at,
                   ok |-> cached \notin faults /\ CompletionAccepted(es, id)]>>]
  ELSE [goals |-> gs, log |-> <<>>]

\* useCreateEntry: api.createEntry, then the Detector.
CreateEntryOp(weight, recorded_at, faults, track) ==
  /\ Len(entries) < MaxEntries
  /\ LET es == Append(entries, [live |-> TRUE, weight |-> weight,
                                recorded_at |-> recorded_at])
         id == Len(es)
         r == detect(goals, es, activeGoal, id, faults)
     IN  /\ entries' = es
         /\ goals' = r.goals
         /\ activeGoal' = getActiveGoal(r.goals)
         /\ lastOp' = IF activeGoal = Null THEN NoRun
                      ELSE Run("create", id, es, r.goals, track)
         /\ UNCHANGED <<probe, pending>>

\* The end of useUpdateEntry and useDeleteEntry: revalidateGoals, awaited in
\* onSuccess, over what the store delivers.  getEntries is called only when
\* some goal was completed by the affected entry (lines 48-57).
Revalidated(kind, id, es, modifiedEntry, faults, track) ==
  \E order \in affectedGoals(goals, id) :
    \E allEntries \in IF Len(order) = 0 THEN {<<>>}
                      ELSE getEntries(es, RevalidationLimit) :
      LET r == revalidateGoals(goals, es, order, allEntries, modifiedEntry,
                               faults)
      IN  /\ entries' = es
          /\ goals' = r.goals
          /\ activeGoal' = getActiveGoal(r.goals)
          /\ lastOp' = IF Len(order) = 0 THEN NoRun
                       ELSE Run(kind, id, es, r.goals, track)
          /\ UNCHANGED <<probe, pending>>

\* api.updateEntry(id, {weight, recorded_at?}): recorded_at is part of the
\* update only when given (useUpdateEntry's mutationFn).
updateEntry(es, id, weight, recorded_at) ==
  [es EXCEPT ![id].weight = weight,
             ![id].recorded_at = IF recorded_at = Null THEN @ ELSE recorded_at]

\* useUpdateEntry: api.updateEntry, then
\* revalidateGoals(profile.id, entryId, updatedEntry).
UpdateEntryOp(id, weight, recorded_at, faults, track) ==
  /\ id \in EntryIds(entries)
  /\ LET es == updateEntry(entries, id, weight, recorded_at)
     IN  Revalidated("update", id, es, es[id], faults, track)

\* A delete that the foreign key does not hold back.
deleteEntryUnchecked(es, gs, id) == [es EXCEPT ![id] = DeletedEntry]

\* api.deleteEntry(id): the foreign key of goals.completed_entry_id rejects
\* the delete of an entry that a goal names.
deleteEntry(es, gs, id) ==
  IF Referenced(gs, id) THEN es ELSE [es EXCEPT ![id] = DeletedEntry]

\* useDeleteEntry: api.deleteEntry, whose result is not inspected, then
\* revalidateGoals(profile.id, deletedEntryId, null).
DeleteEntryOp(id, faults, track) ==
  /\ id \in EntryIds(entries)
  /\ Revalidated("delete", id, deleteEntry(entries, goals, id), DeletedEntry,
                 faults, track)

\* An api.setGoal without the comparison of the target with the start weight.
setGoalAnyTarget(gs, es, latest, target_weight, created_at) ==
  IF Len(latest) # 0 /\ ActiveGoals(gs) = {}
  THEN Append(gs, [start_weight |-> es[latest[1]].weight,
                   target_weight |-> target_weight,
                   created_at |-> created_at,
                   status |-> "active",
                   completed_at |-> Null,
                   completed_entry_id |-> Null])
  ELSE gs

\* api.setGoal(target_weight) with the row of its entries query (the latest by
\* recorded_at, or none): the goals table after it.  It throws without an
\* entry and when the target equals the start weight; the insert of the
\* active row is subject to idx_goals_user_active.
setGoal(gs, es, latest, target_weight, created_at) ==
  LET startWeight == IF Len(latest) = 0 THEN Null ELSE es[latest[1]].weight
      inserted == /\ Len(latest) # 0
                  /\ startWeight # target_weight
                  /\ ActiveGoals(gs) = {}
  IN  IF inserted
      THEN Append(gs, [start_weight |-> startWeight,
                       target_weight |-> target_weight,
                       created_at |-> created_at,
                       status |-> "active",
                       completed_at |-> Null,
                       completed_entry_id |-> Null])
      ELSE gs

\* useSetGoal -> api.setGoal, for at most maxGoals goals.
SetGoalOp(target_weight, maxGoals) ==
  /\ Len(goals) < maxGoals
  /\ \E latest \in getEntries(entries, 1) :
       \E created_at \in Now(goals) :
         LET gs == setGoal(goals, entries, latest, target_weight, created_at)
         IN  /\ goals' = gs
             /\ activeGoal' = getActiveGoal(gs)
             /\ lastOp' = NoRun
             /\ UNCHANGED <<entries, probe, pending>>

CreateEntry == \E w \in Weights, t \in Times : CreateEntryOp(w, t, {}, TRUE)

\* The edit form sends the weight and, when the date was changed, the new
\* recorded_at (a recorded_at equal to the stored one is the same update).
EditedTimes(id) == {Null} \cup (Times \ {entries[id].recorded_at})

UpdateEntry ==
  \E id \in EntryIds(entries) :
    \E w \in Weights, t \in EditedTimes(id) : UpdateEntryOp(id, w, t, {}, TRUE)

DeleteEntry == \E id \in EntryIds(entries) : DeleteEntryOp(id, {}, TRUE)

SetGoal == \E target \in Weights : SetGoalOp(target, MaxGoals)

Next == CreateEntry \/ UpdateEntry \/ DeleteEntry \/ SetGoal

Spec == Init /\ [][Next]_vars

\* The same operations for up to MaxGoalsWide goals, without the record of
\* the last run.
CreateEntryWide == \E w \in Weights, t \in Times : CreateEntryOp(w, t, {}, FALSE)

UpdateEntryWide ==
  \E id \in EntryIds(entries) :
    \E w \in Weights, t \in EditedTimes(id) : UpdateEntryOp(id, w, t, {}, FALSE)

DeleteEntryWide == \E id \in EntryIds(entries) : DeleteEntryOp(id, {}, FALSE)

SetGoalWide == \E target \in Weights : SetGoalOp(target, MaxGoalsWide)

NextWide ==
  CreateEntryWide \/ UpdateEntryWide \/ DeleteEntryWide \/ SetGoalWide

SpecWide == Init /\ [][NextWide]_vars

(***************************************************************************)
(* The completion predicate on its own: a goal and an entry drawn from     *)
(* bounded sets, start_weight <= 0 included (legacy or corrupted rows),    *)
(* and one step that runs the Detector and the Revalidator's filter on     *)
(* them.                                                                   *)
(***************************************************************************)

ProbeGoal(start_weight, target_weight, created_at) ==
  [start_weight |-> start_weight, target_weight |-> target_weight,
   created_at |-> created_at, status |-> "active",
   completed_at |-> Null, completed_entry_id |-> Null]

ProbeEntry(weight, recorded_at) ==
  [live |-> TRUE, weight |-> weight, recorded_at |-> recorded_at]

InitPred ==
  /\ entries = <<>>
  /\ goals = <<>>
  /\ activeGoal = Null
  /\ lastOp = NoRun
  /\ pending = {}
  /\ probe \in [stage : {"input"},
                start_weight : (0 - 1)..MaxProbe,
                target_weight : 1..MaxProbe,
                weight : 1..MaxProbe,
                created_at : Times,
                recorded_at : Times]

\* The Detector on the goal as the cached active goal and the entry as the
\* new row; checkGoalCompletion on the same pair; the Revalidator's filter on
\* the entry as a row other than the affected one.
Evaluate ==
  /\ probe.stage = "input"
  /\ LET goal == ProbeGoal(probe.start_weight, probe.target_weight,
                           probe.created_at)
         entry == ProbeEntry(probe.weight, probe.recorded_at)
     IN  probe' = [stage |-> "done",
                   start_weight |-> probe.start_weight,
                   target_weight |-> probe.target_weight,
                   weight |-> probe.weight,
                   created_at |-> probe.created_at,
                   recorded_at |-> probe.recorded_at,
                   detector |-> isGoalAchieved(probe.start_weight,
                                               probe.target_weight,
                                               probe.weight),
                   detectorWrites |-> Len(detect(<<goal>>, <<entry>>, 1, 1,
                                                 {}).log),
                   checkWrites |-> checkGoalCompletion(probe.start_weight,
                                                       probe.target_weight,
                                                       probe.weight),
                   revalidator |-> meetsGoal(probe.start_weight,
                                             probe.target_weight,
                                             probe.weight),
                   eligible |-> eligible(goal, <<entry>>, 1, DeletedEntry)]
  /\ UNCHANGED <<entries, goals, activeGoal, lastOp, pending>>

NextPred == Evaluate

SpecPred == InitPred /\ [][NextPred]_vars

(***************************************************************************)
(* The operations under store failures.  Every store call ends in one of   *)
(* three ways: "ok", an error result ({data: null, error}) or a thrown     *)
(* exception (the fetch wrapper of lib/supabase.ts rethrows).  lastOp      *)
(* records what the mutation reported to its caller.                       *)
(***************************************************************************)

Outcomes == {"ok", "error", "throw"}

\* The outcomes of the store calls of one revalidation pass over the goals
\* in affected: the two reads, and the goals whose write comes back with an
\* error result (failed) or throws (thrown).  A call that is not reached has
\* no outcome, which is written "ok" here.
PassFaults(affected) ==
  {[goalsRead |-> o, entriesRead |-> "ok", failed |-> {}, thrown |-> {}] :
     o \in Outcomes}
  \cup
  (IF affected = {} THEN {}
   ELSE {[goalsRead |-> "ok", entriesRead |-> o, failed |-> {},
          thrown |-> {}] : o \in Outcomes \ {"ok"}}
        \cup
        UNION {{[goalsRead |-> "ok", entriesRead |-> "ok", failed |-> x,
                 thrown |-> y] : y \in SUBSET (affected \ x)} :
                 x \in SUBSET affected})

NoPassFaults ==
  [goalsRead |-> "ok", entriesRead |-> "ok", failed |-> {}, thrown |-> {}]

\* The try block without the test of entriesError: after an error result of
\* the read of the entries it goes on with no rows (allEntries || []).
tryRevalidateGoalsOn(gs, es, order, allEntries, modifiedEntry, f) ==
  IF f.goalsRead = "throw" THEN [goals |-> gs, log |-> <<>>, thrown |-> TRUE]
  ELSE IF f.goalsRead = "error" \/ Len(order) = 0
  THEN [goals |-> gs, log |-> <<>>, thrown |-> FALSE]
  ELSE IF f.entriesRead = "throw"
  THEN [goals |-> gs, log |-> <<>>, thrown |-> TRUE]
  ELSE LET r == revalidateEach(gs, gs, es, order, 1, allEntries,
                               modifiedEntry, f.failed \cup f.thrown)
       IN  [goals |-> r.goals, log |-> r.log, thrown |-> FALSE]

\* The try block of revalidateGoals (lines 32-71): an error result of a read
\* returns, a thrown read leaves the block (thrown), and the write helpers
\* catch their own failures, so the loop goes on after each of them.
tryRevalidateGoals(gs, es, order, allEntries, modifiedEntry, f) ==
  IF f.goalsRead = "throw" THEN [goals |-> gs, log |-> <<>>, thrown |-> TRUE]
  ELSE IF f.goalsRead = "error" \/ Len(order) = 0
  THEN [goals |-> gs, log |-> <<>>, thrown |-> FALSE]
  ELSE IF f.entriesRead = "throw"
  THEN [goals |-> gs, log |-> <<>>, thrown |-> TRUE]
  ELSE IF f.entriesRead = "error"
  THEN [goals |-> gs, log |-> <<>>, thrown |-> FALSE]
  ELSE LET r == revalidateEach(gs, gs, es, order, 1, allEntries,
                               modifiedEntry, f.failed \cup f.thrown)
       IN  [goals |-> r.goals, log |-> r.log, thrown |-> FALSE]

\* revalidateGoals without its catch: what is thrown in the try block
\* reaches the caller.
revalidateGoalsUncaught(gs, es, order, allEntries, modifiedEntry, f) ==
  LET r == tryRevalidateGoals(gs, es, order, allEntries, modifiedEntry, f)
  IN  [goals |-> r.goals, log |-> r.log, raised |-> r.thrown]

\* revalidateGoals (lines 26-76) under the outcomes f: the catch of line 72
\* logs what the try block threw and rethrows nothing.
revalidateGoalsUnder(gs, es, order, allEntries, modifiedEntry, f) ==
  LET r == tryRevalidateGoals(gs, es, order, allEntries, modifiedEntry, f)
  IN  [goals |-> r.goals, log |-> r.log, raised |-> FALSE]

\* A pass that did not run.
NoPass == [goals |-> goals, log |-> <<>>, raised |-> FALSE]

MaxEntriesFault == 2

\* What a mutation (useMutation) reports: an error when its mutationFn
\* throws, success when it returns; the onSuccess handlers here catch what
\* they await, so they add no failure of their own.
Reported(entryOutcome) == IF entryOutcome = "throw" THEN "error" ELSE "success"

\* The end of useUpdateEntry and useDeleteEntry under the outcomes f, when
\* onSuccess calls revalidateGoals (ran) and when it does not.
RevalidatedUnder(kind, id, es, modifiedEntry, entryOutcome, stored, ran) ==
  \E order \in affectedGoals(goals, id) :
    \E f \in IF ran THEN PassFaults({order[i] : i \in DOMAIN order})
             ELSE {NoPassFaults} :
      \E allEntries \in IF ran /\ Len(order) # 0 /\ f.goalsRead = "ok"
                             /\ f.entriesRead = "ok"
                        THEN getEntries(es, RevalidationLimit)
                        ELSE {<<>>} :
        LET r == IF ran
                 THEN revalidateGoalsUnder(goals, es, order, allEntries,
                                           modifiedEntry, f)
                 ELSE NoPass
        IN  /\ entries' = es
            /\ goals' = r.goals
            /\ activeGoal' = getActiveGoal(r.goals)
            /\ lastOp' = [kind |-> kind, id |-> id,
                          idle |-> es = entries /\ r.goals = goals,
                          stored |-> stored, ran |-> ran,
                          raised |-> r.raised,
                          reported |-> Reported(entryOutcome),
                          writes |-> Len(SelectSeq(r.log,
                                       LAMBDA l : l.action # "keep")),
                          readFailed |-> \/ f.goalsRead # "ok"
                                         \/ f.entriesRead # "ok",
                          writeFailed |-> f.failed \cup f.thrown # {}]
            /\ UNCHANGED <<probe, pending>>

\* useUpdateEntry with the outcome of api.updateEntry: an error result gives
\* updatedEntry = null, and onSuccess then skips revalidateGoals; a thrown
\* call fails the mutation before onSuccess.
UpdateEntryUnder(id, weight, recorded_at, entryOutcome) ==
  /\ id \in EntryIds(entries)
  /\ LET stored == entryOutcome = "ok"
         es == IF stored THEN updateEntry(entries, id, weight, recorded_at)
               ELSE entries
     IN  RevalidatedUnder("update", id, es, es[id], entryOutcome, stored,
                          stored)

\* useDeleteEntry with the outcome of api.deleteEntry: the result is not
\* inspected, so onSuccess calls revalidateGoals(profile.id, id, null) unless
\* the call threw.
DeleteEntryUnder(id, entryOutcome) ==
  /\ id \in EntryIds(entries)
  /\ LET stored == entryOutcome = "ok" /\ ~Referenced(goals, id)
         es == IF entryOutcome = "ok" THEN deleteEntry(entries, goals, id)
               ELSE entries
     IN  RevalidatedUnder("delete", id, es, DeletedEntry, entryOutcome,
                          stored, entryOutcome # "throw")

\* useCreateEntry with the outcomes of api.createEntry and of the
\* api.completeGoal that completeGoal.mutate issues: an error result of the
\* insert gives newEntry = null, and onSuccess then does nothing; mutate
\* never throws into onSuccess.
CreateEntryUnder(weight, recorded_at, entryOutcome, writeOutcome) ==
  /\ Len(entries) < MaxEntriesFault
  /\ entryOutcome # "ok" => writeOutcome = "ok"
  /\ LET stored == entryOutcome = "ok"
         es == IF stored
               THEN Append(entries, [live |-> TRUE, weight |-> weight,
                                     recorded_at |-> recorded_at])
               ELSE entries
         id == Len(es)
         r == IF stored
              THEN detect(goals, es, activeGoal, id,
                          IF writeOutcome = "ok" THEN {} ELSE {activeGoal})
              ELSE [goals |-> goals, log |-> <<>>]
     IN  /\ Len(r.log) = 0 => writeOutcome = "ok"
         /\ entries' = es
         /\ goals' = r.goals
         /\ activeGoal' = getActiveGoal(r.goals)
         /\ lastOp' = [kind |-> "create", id |-> IF stored THEN id ELSE Null,
                       idle |-> r.goals = goals,
                       stored |-> stored, ran |-> stored,
                       raised |-> FALSE,
                       reported |-> Reported(entryOutcome),
                       writes |-> Len(r.log),
                       readFailed |-> FALSE,
                       writeFailed |-> writeOutcome # "ok"]
         /\ UNCHANGED <<probe, pending>>

\* A goal row from before check_valid_start_weight (start_weight 0), which
\* the goals table may still hold.
LegacyGoal ==
  [start_weight |-> 0, target_weight |-> 1, created_at |-> 1,
   status |-> "active", completed_at |-> Null, completed_entry_id |-> Null]

InitFault ==
  /\ entries = <<>>
  /\ goals \in {<<>>, <<LegacyGoal>>}
  /\ activeGoal = getActiveGoal(goals)
  /\ lastOp = NoRun
  /\ probe = NoProbe
  /\ pending = {}

\* A store call that fails stores nothing, whatever values it was sent, so
\* the failing calls are taken with one choice of values.
CreateEntryFault ==
  \/ \E w \in Weights, t \in Times :
       \E writeOutcome \in Outcomes : CreateEntryUnder(w, t, "ok", writeOutcome)
  \/ \E entryOutcome \in Outcomes \ {"ok"} :
       CreateEntryUnder(1, 1, entryOutcome, "ok")

UpdateEntryFault ==
  \E id \in EntryIds(entries) :
    \/ \E w \in Weights, t \in EditedTimes(id) :
         UpdateEntryUnder(id, w, t, "ok")
    \/ \E entryOutcome \in Outcomes \ {"ok"} :
         UpdateEntryUnder(id, entries[id].weight, Null, entryOutcome)

DeleteEntryFault ==
  \E id \in EntryIds(entries) :
    \E entryOutcome \in Outcomes : DeleteEntryUnder(id, entryOutcome)

SetGoalFault == \E target \in Weights : SetGoalOp(target, MaxGoals)

NextFault ==
  CreateEntryFault \/ UpdateEntryFault \/ DeleteEntryFault \/ SetGoalFault

SpecFault == InitFault /\ [][NextFault]_vars

(***************************************************************************)
(* The handlers step by step.  Each action is one store call, or the       *)
(* synchronous code of a handler between two store calls; pending holds    *)
(* the handlers in flight with what they have read so far, so the calls of *)
(* different handlers interleave in every order.  The activeGoal query is  *)
(* refetched by a step of its own, so a handler may see a stale cache.     *)
(* A task is a record                                                      *)
(*   kind      "created": api.createEntry returned, onSuccess is next      *)
(*             "start":   api.setGoal has read the latest entry            *)
(*             "goals":   the entry is written, getCompletedGoals is next  *)
(*             "entries": the affected goals are read, getEntries is next  *)
(*             "writes":  the goal writes in decisions are still to issue  *)
(*   id        the entry created, edited or deleted (Null for "start")     *)
(*   row       the row the entry call returned (DeletedEntry after a       *)
(*             delete); for "start" the row read, weight = target sent     *)
(*   read      the affected goals as read: <<goal, completed_at>> each     *)
(*   decisions the goal writes to issue, in order                          *)
(* lastOp counts the handlers started, at most MaxStarted.                 *)
(***************************************************************************)

MaxEntriesConc == 3
MaxGoalsConc == 2
MaxPending == 2
MaxStarted == 5

\* A handler starts: one more handler in flight, one more started.
Started(task) ==
  /\ Cardinality(pending) < MaxPending
  /\ lastOp.started < MaxStarted
  /\ pending' = pending \cup {task}
  /\ lastOp' = [lastOp EXCEPT !.started = @ + 1]

Task(kind, id, row, read, decisions) ==
  [kind |-> kind, id |-> id, row |-> row, read |-> read,
   decisions |-> decisions]

\* api.createEntry of useCreateEntry.mutationFn: the row is stored; onSuccess
\* runs when the response arrives.
ConcCreateEntry ==
  \E weight \in Weights, recorded_at \in Times :
    /\ Len(entries) < MaxEntriesConc
    /\ LET row == [live |-> TRUE, weight |-> weight,
                   recorded_at |-> recorded_at]
       IN  /\ entries' = Append(entries, row)
           /\ Started(Task("created", Len(entries) + 1, row, <<>>, <<>>))
    /\ UNCHANGED <<goals, activeGoal, probe>>

\* useCreateEntry.onSuccess: the Detector's decision on the cached active
\* goal and the returned row; completeGoal.mutate queues the completion.
ConcDetect ==
  \E task \in pending :
    /\ task.kind = "created"
    /\ LET qualifies ==
             /\ activeGoal # Null
             /\ DetectorCompletes(goals[activeGoal].start_weight,
                                  goals[activeGoal].target_weight,
                                  task.row.weight)
           write == [goal |-> activeGoal, action |-> "complete",
                     entry |-> task.id, at |-> task.row.recorded_at]
       IN  pending' = (pending \ {task}) \cup
             (IF qualifies
              THEN {Task("writes", task.id, task.row, <<>>, <<write>>)}
              ELSE {})
    /\ UNCHANGED <<entries, goals, activeGoal, lastOp, probe>>

\* api.updateEntry of useUpdateEntry.mutationFn; onSuccess then calls
\* revalidateGoals with the returned row.
ConcUpdateEntry ==
  \E id \in EntryIds(entries) :
    \E weight \in Weights, recorded_at \in EditedTimes(id) :
      /\ entries' = updateEntry(entries, id, weight, recorded_at)
      /\ Started(Task("goals", id, entries'[id], <<>>, <<>>))
      /\ UNCHANGED <<goals, activeGoal, probe>>

\* api.deleteEntry of useDeleteEntry.mutationFn; onSuccess then calls
\* revalidateGoals with null, whatever the result.
ConcDeleteEntry ==
  \E id \in EntryIds(entries) :
    /\ entries' = deleteEntry(entries, goals, id)
    /\ Started(Task("goals", id, DeletedEntry, <<>>, <<>>))
    /\ UNCHANGED <<goals, activeGoal, probe>>

\* api.getCompletedGoals and the filter of revalidateGoals (lines 33-51).
ConcReadGoals ==
  \E task \in pending :
    /\ task.kind = "goals"
    /\ \E order \in affectedGoals(goals, task.id) :
         pending' = (pending \ {task}) \cup
           (IF Len(order) = 0 THEN {}
            ELSE {Task("entries", task.id, task.row,
                       [i \in DOMAIN order |->
                          <<order[i], goals[order[i]].completed_at>>],
                       <<>>)})
    /\ UNCHANGED <<entries, goals, activeGoal, lastOp, probe>>

\* The goal row that a pass for entry id holds after getCompletedGoals.
GoalAsRead(id, r) ==
  [goals[r[1]] EXCEPT !.status = "completed",
                      !.completed_entry_id = id,
                      !.completed_at = r[2]]

\* api.getEntries of revalidateGoals (lines 54-66), and what
\* revalidateSingleGoal decides for each affected goal on the rows read; the
\* writes it decides are issued one by one.
ConcReadEntries ==
  \E task \in pending :
    /\ task.kind = "entries"
    /\ \E allEntries \in getEntries(entries, RevalidationLimit) :
         LET all == [i \in DOMAIN task.read |->
                       decide(GoalAsRead(task.id, task.read[i]),
                              task.read[i][1], entries, allEntries,
                              task.row)]
             writes == SelectSeq(all, LAMBDA d : d.action # "keep")
         IN  pending' = (pending \ {task}) \cup
               (IF Len(writes) = 0 THEN {}
                ELSE {Task("writes", task.id, task.row, <<>>, writes)})
    /\ UNCHANGED <<entries, goals, activeGoal, lastOp, probe>>

\* One goal write reaches the store: api.completeGoal,
\* api.revertGoalToActive or api.updateGoalCompletion.
ConcWrite ==
  \E task \in pending :
    /\ task.kind = "writes"
    /\ LET d == Head(task.decisions)
           rest == Tail(task.decisions)
       IN  /\ goals' = IF d.action = "complete"
                       THEN completeGoal(goals, entries, d.goal, d.entry,
                                         d.at, {})
                       ELSE applyDecision(goals, entries, d, {})
           /\ pending' = (pending \ {task}) \cup
                (IF Len(rest) = 0 THEN {}
                 ELSE {Task("writes", task.id, task.row, <<>>, rest)})
    /\ UNCHANGED <<entries, activeGoal, lastOp, probe>>

\* api.setGoal, first call: the latest entry by recorded_at.
ConcSetGoalRead ==
  \E target_weight \in Weights :
    /\ Len(goals) < MaxGoalsConc
    /\ \E latest \in getEntries(entries, 1) :
         /\ Len(latest) # 0
         /\ entries[latest[1]].weight # target_weight
         /\ Started(Task("start", Null,
                         [live |-> TRUE, weight |-> entries[latest[1]].weight,
                          recorded_at |-> target_weight], <<>>, <<>>))
    /\ UNCHANGED <<entries, goals, activeGoal, probe>>

\* api.setGoal, second call: the insert of the active row, subject to
\* idx_goals_user_active.
ConcSetGoalInsert ==
  \E task \in pending :
    /\ task.kind = "start"
    /\ \E created_at \in Now(goals) :
         goals' = IF Len(goals) < MaxGoalsConc /\ ActiveGoals(goals) = {}
                  THEN Append(goals, [start_weight |-> task.row.weight,
                                      target_weight |-> task.row.recorded_at,
                                      created_at |-> created_at,
                                      status |-> "active",
                                      completed_at |-> Null,
                                      completed_entry_id |-> Null])
                  ELSE goals
    /\ pending' = pending \ {task}
    /\ UNCHANGED <<entries, activeGoal, lastOp, probe>>

\* The activeGoal query (useActiveGoal) refetches after an invalidation or on
\* its own schedule.
ConcRefetch ==
  /\ activeGoal # getActiveGoal(goals)
  /\ activeGoal' = getActiveGoal(goals)
  /\ UNCHANGED <<entries, goals, lastOp, probe, pending>>

NextConc ==
  \/ ConcCreateEntry
  \/ ConcDetect
  \/ ConcUpdateEntry
  \/ ConcDeleteEntry
  \/ ConcReadGoals
  \/ ConcReadEntries
  \/ ConcWrite
  \/ ConcSetGoalRead
  \/ ConcSetGoalInsert
  \/ ConcRefetch

InitConc ==
  /\ entries = <<>>
  /\ goals = <<>>
  /\ activeGoal = Null
  /\ lastOp = [kind |-> "none", id |-> Null, idle |-> FALSE, started |-> 0]
  /\ probe = NoProbe
  /\ pending = {}

SpecConc == InitConc /\ [][NextConc]_vars

(***************************************************************************)
(* Creations against a cached active goal that lags behind the store.  The *)
(* activeGoal query is invalidated after a completion and refetches on its *)
(* own; a creation whose onSuccess runs before the refetch evaluates the   *)
(* goal row of the earlier fetch.                                          *)
(***************************************************************************)

MaxEntriesStale == 3
MaxGoalsStale == 2

\* useCreateEntry with the cached active goal as it is: the completion is
\* written by goal id, whatever the goal's status in the store.  The record
\* says whether the Detector wrote a goal that the store no longer held as
\* active.
CreateEntryStale ==
  \E weight \in Weights, recorded_at \in Times :
    /\ Len(entries) < MaxEntriesStale
    /\ LET es == Append(entries, [live |-> TRUE, weight |-> weight,
                                  recorded_at |-> recorded_at])
           id == Len(es)
           r == detect(goals, es, activeGoal, id, {})
       IN  /\ entries' = es
           /\ goals' = r.goals
           /\ lastOp' = [kind |-> "create", id |-> id, idle |-> r.goals = goals,
                         goal |-> activeGoal,
                         stale |-> /\ Len(r.log) # 0
                                   /\ goals[activeGoal].status = "completed"]
    /\ UNCHANGED <<activeGoal, probe, pending>>

\* The activeGoal query refetches (useActiveGoal's queryFn).
RefetchStale ==
  /\ activeGoal # getActiveGoal(goals)
  /\ activeGoal' = getActiveGoal(goals)
  /\ UNCHANGED <<entries, goals, lastOp, probe, pending>>

UpdateEntryStale ==
  \E id \in EntryIds(entries) :
    \E w \in Weights, t \in EditedTimes(id) : UpdateEntryOp(id, w, t, {}, TRUE)

DeleteEntryStale == \E id \in EntryIds(entries) : DeleteEntryOp(id, {}, TRUE)

SetGoalStale == \E target \in Weights : SetGoalOp(target, MaxGoalsStale)

NextStale ==
  \/ CreateEntryStale
  \/ RefetchStale
  \/ UpdateEntryStale
  \/ DeleteEntryStale
  \/ SetGoalStale

SpecStale == Init /\ [][NextStale]_vars

(***************************************************************************)
(* The pass on a store that holds more rows than its read of the entries   *)
(* asks for.  revalidateGoals calls api.getEntries(userId, {limit: 1000}); *)
(* which rows the decision sees depends on the limit only through the      *)
(* number of rows beyond it, so the pass is explored here with a read of   *)
(* PageLimit rows on stores of up to MaxEntriesLimit > PageLimit rows.     *)
(***************************************************************************)

PageLimit == 2
MaxEntriesLimit == 3
MaxGoalsLimit == 1

\* The end of useUpdateEntry and useDeleteEntry with the read of the entries
\* cut to PageLimit rows.
RevalidatedPage(kind, id, es, modifiedEntry) ==
  \E order \in affectedGoals(goals, id) :
    \E allEntries \in IF Len(order) = 0 THEN {<<>>}
                      ELSE getEntries(es, PageLimit) :
      LET r == revalidateGoals(goals, es, order, allEntries, modifiedEntry, {})
      IN  /\ entries' = es
          /\ goals' = r.goals
          /\ activeGoal' = getActiveGoal(r.goals)
          /\ lastOp' = IF Len(order) = 0 THEN NoRun
                       ELSE Run(kind, id, es, r.goals, TRUE)
          /\ UNCHANGED <<probe, pending>>

CreateEntryLimit ==
  \E w \in Weights, t \in Times :
    /\ Len(entries) < MaxEntriesLimit
    /\ CreateEntryOp(w, t, {}, TRUE)

UpdateEntryLimit ==
  \E id \in EntryIds(entries) :
    \E w \in Weights, t \in EditedTimes(id) :
      LET es == updateEntry(entries, id, w, t)
      IN  RevalidatedPage("update", id, es, es[id])

DeleteEntryLimit ==
  \E id \in EntryIds(entries) :
    RevalidatedPage("delete", id, deleteEntry(entries, goals, id), DeletedEntry)

SetGoalLimit == \E target \in Weights : SetGoalOp(target, MaxGoalsLimit)

NextLimit ==
  CreateEntryLimit \/ UpdateEntryLimit \/ DeleteEntryLimit \/ SetGoalLimit

SpecLimit == Init /\ [][NextLimit]_vars

(***************************************************************************)
(* What the specification calls an eligible entry, stated on its own.      *)
(***************************************************************************)

\* The direction predicate of a goal against its target weight.
Satisfies(goal, weight) ==
  \/ goal.start_weight > goal.target_weight /\ weight <= goal.target_weight
  \/ goal.start_weight < goal.target_weight /\ weight >= goal.target_weight

\* An entry recorded on or after the goal's creation that satisfies it.
EligibleFor(goal, entry) ==
  entry.recorded_at >= goal.created_at /\ Satisfies(goal, entry.weight)

\* The entries eligible for a goal after a pass for the affected entry id:
\* on deletion the affected entry counts for nothing, after an edit it counts
\* with its stored (edited) values.
EligibleSet(goal, es, kind, id) ==
  {j \in EntryIds(es) : /\ ~(kind = "delete" /\ j = id)
                        /\ EligibleFor(goal, es[j])}

\* The goal row is completed and credited to one of the earliest entries of
\* the set, with that entry's recorded_at as completed_at.
CreditedToEarliest(row, es, set) ==
  /\ row.status = "completed"
  /\ row.completed_entry_id \in set
  /\ \A j \in set : es[row.completed_entry_id].recorded_at <= es[j].recorded_at
  /\ row.completed_at = es[row.completed_entry_id].recorded_at

\* The goal row is active with null completion fields.
IsActive(row) ==
  /\ row.status = "active"
  /\ row.completed_at = Null
  /\ row.completed_entry_id = Null

\* The goals completed by entry id.
CompletedBy(gs, id) ==
  {g \in GoalIds(gs) : gs[g].status = "completed" /\ gs[g].completed_entry_id = id}

\* This step is a revalidation pass with affected goals.
PassStep == lastOp'.kind \in {"update", "delete"}

\* This step created an entry.
CreateStep == Len(entries') = Len(entries) + 1

\* The affected goal g is, after this step's pass for entry id, in the state
\* its eligible set dictates: active when the set is empty, credited to an
\* earliest eligible entry otherwise.
Dictated(g, kind, id) ==
  LET set == EligibleSet(goals[g], entries', kind, id)
  IN  IF set = {} THEN IsActive(goals'[g])
      ELSE CreditedToEarliest(goals'[g], entries', set)

\* The modifiedEntry argument of the pass recorded in op, given the entries
\* after it.
ModifiedEntry(op, es) == IF op.kind = "delete" THEN DeletedEntry ELSE es[op.id]

(***************************************************************************)
(* The claims.                                                             *)
(***************************************************************************)

\* C1: in every state between operations, every completed goal names an
\* existing entry that was recorded on or after the goal's creation and
\* whose weight satisfies the goal's direction predicate.
C1_CompletedGoalsValid ==
  \A g \in GoalIds(goals) :
    goals[g].status = "completed" =>
      /\ goals[g].completed_entry_id \in EntryIds(entries)
      /\ EligibleFor(goals[g], entries[goals[g].completed_entry_id])

\* C2: an entry created while the store holds an active goal that its weight
\* satisfies leaves that goal completed, credited to the new entry, with the
\* new entry's recorded_at as completed_at.
C2_DetectorCompletion ==
  [][CreateStep =>
       LET id == Len(entries')
           g == getActiveGoal(goals)
       IN  (g # Null /\ Satisfies(goals[g], entries'[id].weight)) =>
             /\ goals'[g].status = "completed"
             /\ goals'[g].completed_entry_id = id
             /\ goals'[g].completed_at = entries'[id].recorded_at]_vars

\* C2, its case: the Detector has completed a goal from a backdated entry.
C2_Witness ==
  /\ lastOp.kind = "create"
  /\ \E g \in GoalIds(goals) :
       /\ goals[g].status = "completed"
       /\ goals[g].completed_entry_id = lastOp.id
       /\ goals[g].completed_at = entries[lastOp.id].recorded_at
       /\ goals[g].completed_at < goals[g].created_at

\* C3: for start > 0, target > 0 and start # target, the Detector's copy and
\* the Revalidator's copy of the predicate both return true exactly when
\* (start > target and weight <= target) or (start < target and
\* weight >= target).
C3_PredicateCorrect ==
  (/\ probe.stage = "done"
   /\ probe.start_weight > 0
   /\ probe.target_weight > 0
   /\ probe.start_weight # probe.target_weight) =>
    LET expected ==
          \/ /\ probe.start_weight > probe.target_weight
             /\ probe.weight <= probe.target_weight
          \/ /\ probe.start_weight < probe.target_weight
             /\ probe.weight >= probe.target_weight
    IN  /\ probe.detector = expected
        /\ (probe.detectorWrites = 1) = expected
        /\ probe.checkWrites = expected
        /\ probe.revalidator = expected

\* C3, its case: a gain goal met by the entry, evaluated by both copies.
C3_Witness ==
  /\ probe.stage = "done"
  /\ 0 < probe.start_weight
  /\ probe.start_weight < probe.target_weight
  /\ probe.weight >= probe.target_weight
  /\ probe.detector
  /\ probe.revalidator

\* C4: for a goal with start_weight <= 0 the predicate is never true: the
\* Detector writes no completion and the Revalidator counts no entry as
\* eligible.
C4_GuardRejects ==
  (probe.stage = "done" /\ probe.start_weight <= 0) =>
    /\ probe.detectorWrites = 0
    /\ ~probe.checkWrites
    /\ ~probe.revalidator
    /\ ~probe.eligible

\* C5: an entry creation issues a goal write only if the store holds an
\* active goal that the new entry satisfies; otherwise it issues none and
\* leaves every goal as it was.
C5_DetectorFrame ==
  [][CreateStep =>
       LET id == Len(entries')
           g == getActiveGoal(goals)
           qualifies == g # Null /\ Satisfies(goals[g], entries'[id].weight)
           writes == Len(detect(goals, entries', activeGoal, id, {}).log)
       IN  /\ writes > 0 => qualifies
           /\ ~qualifies => writes = 0 /\ goals' = goals]_vars

\* C5, its case: an entry was created against an active goal that it does
\* not satisfy, and the goal is still active.
C5_Witness ==
  /\ lastOp.kind = "create"
  /\ \E g \in GoalIds(goals) :
       /\ IsActive(goals[g])
       /\ ~Satisfies(goals[g], entries[lastOp.id].weight)

\* C6: a pass for the deletion of the completing entry of a goal for which no
\* other entry is eligible leaves that goal active with null completion
\* fields, whatever other goals the user has.
C6_DeleteReverts ==
  [][\A g \in GoalIds(goals) :
       (/\ lastOp'.kind = "delete"
        /\ g \in CompletedBy(goals, lastOp'.id)
        /\ EligibleSet(goals[g], entries', "delete", lastOp'.id) = {}) =>
         IsActive(goals'[g])]_vars

\* C7: after a pass, every affected goal whose eligible set is not empty is
\* credited to an eligible entry with the least recorded_at, and its
\* completed_at is that entry's recorded_at.
C7_EarliestEligible ==
  [][PassStep =>
       \A g \in CompletedBy(goals, lastOp'.id) :
         LET set == EligibleSet(goals[g], entries', lastOp'.kind, lastOp'.id)
         IN  set # {} => CreditedToEarliest(goals'[g], entries', set)]_vars

\* C7, its case: the only goal was credited to the deleted entry and is now
\* credited to another entry, with that entry's recorded_at.
C7_Witness ==
  /\ lastOp.kind = "delete"
  /\ Len(goals) = 1
  /\ goals[1].status = "completed"
  /\ goals[1].completed_entry_id # lastOp.id
  /\ goals[1].completed_at = entries[goals[1].completed_entry_id].recorded_at

\* C8: in a pass the Revalidator never selects, and never writes as
\* completing entry, an entry recorded before the goal's creation; the
\* edited entry is judged by its edited recorded_at.
C8_LowerBound ==
  [][PassStep =>
       \A g \in CompletedBy(goals, lastOp'.id) :
         /\ \A allEntries \in getEntries(entries', RevalidationLimit) :
              LET d == decide(goals[g], g, entries', allEntries,
                              ModifiedEntry(lastOp', entries'))
              IN  d.action # "revert" =>
                    entries'[d.entry].recorded_at >= goals[g].created_at
         /\ (goals'[g] # goals[g] /\ goals'[g].status = "completed") =>
              entries'[goals'[g].completed_entry_id].recorded_at
                >= goals[g].created_at]_vars

\* C8, its case: the completing entry of the only goal was edited, is now
\* recorded before the goal's creation with a weight that satisfies it, and
\* the goal is no longer credited to it.
C8_Witness ==
  /\ lastOp.kind = "update"
  /\ Len(goals) = 1
  /\ entries[lastOp.id].recorded_at < goals[1].created_at
  /\ Satisfies(goals[1], entries[lastOp.id].weight)
  /\ goals[1].completed_entry_id # lastOp.id

\* C9: after a pass, a second run of revalidateGoals with the same arguments
\* on the unchanged entries and goals leaves the goals as they are and issues
\* no write, at least when the store delivers its rows in the order most
\* favourable to that (rows with equal sort keys come in any order).
C9_Idempotent ==
  lastOp.kind \in {"update", "delete"} =>
    \E order \in affectedGoals(goals, lastOp.id) :
      \E allEntries \in getEntries(entries, RevalidationLimit) :
        LET r == revalidateGoals(goals, entries, order, allEntries,
                                 ModifiedEntry(lastOp, entries), {})
        IN  /\ r.goals = goals
            /\ \A i \in DOMAIN r.log : r.log[i].action = "keep"

\* C10: when a pass for an edited entry processes two goals completed by it,
\* a failed write for one of them does not keep the other from the state its
\* eligible set dictates: they never both miss it.
C10_Isolation ==
  [][\A id \in EntryIds(entries) :
       (/\ Len(entries') = Len(entries)
        /\ entries'[id].live
        /\ entries'[id] # entries[id]) =>
         \A a, b \in CompletedBy(goals, id) :
           a # b => Dictated(a, "update", id) \/ Dictated(b, "update", id)]_vars

\* C11: whatever the outcomes of the store calls of a revalidation pass
\* (error result or thrown exception on either read or on any write),
\* revalidateGoals does not raise, the edit or delete that called it is
\* reported as successful, and the entry change it stored stays stored.
C11_RevalidationContained ==
  (lastOp.kind \in {"update", "delete"} /\ lastOp.ran) =>
    /\ ~lastOp.raised
    /\ lastOp.reported = "success"
    /\ (lastOp.stored /\ lastOp.kind = "delete") => ~entries[lastOp.id].live
    /\ (lastOp.stored /\ lastOp.kind = "update") => entries[lastOp.id].live

\* C11, its case: an edit was stored, a write of its pass failed, and the
\* goal is still credited to the edited entry.
C11_Witness ==
  /\ lastOp.kind = "update"
  /\ lastOp.ran
  /\ lastOp.stored
  /\ lastOp.writeFailed
  /\ lastOp.reported = "success"
  /\ CompletedBy(goals, lastOp.id) # {}

\* C12: when the store accepts a new entry, the entry is stored and the
\* creation is reported as successful whatever the Detector does, and a
\* failed completion write leaves every goal as it was, the active goal
\* still active.
C12_CreationStands ==
  [][(Len(entries') = Len(entries) + 1) =>
       /\ lastOp'.kind = "create"
       /\ lastOp'.stored
       /\ entries'[Len(entries')].live
       /\ lastOp'.reported = "success"
       /\ lastOp'.writeFailed =>
            /\ goals' = goals
            /\ activeGoal # Null
            /\ IsActive(goals'[activeGoal])]_vars

\* C12, its case: an entry that satisfies the active goal was stored, the
\* completion write failed, and the goal is still active.
C12_Witness ==
  /\ lastOp.kind = "create"
  /\ lastOp.stored
  /\ lastOp.writeFailed
  /\ lastOp.reported = "success"
  /\ activeGoal # Null
  /\ IsActive(goals[activeGoal])
  /\ Satisfies(goals[activeGoal], entries[lastOp.id].weight)

\* C13: in every state, whatever the order in which the store calls of goal
\* creations, Detector completions and Revalidator reverts and
\* reassignments reach the store, at most one goal is active.
C13_OneActiveGoal == Cardinality(ActiveGoals(goals)) <= 1

\* C13, its case: every handler has finished, a newer goal is active, and an
\* older goal is still completed by an entry that no longer satisfies it:
\* its revert was turned down.
C13_Witness ==
  /\ pending = {}
  /\ \E a, b \in GoalIds(goals) :
       /\ a < b
       /\ goals[b].status = "active"
       /\ goals[a].status = "completed"
       /\ goals[a].completed_entry_id \in EntryIds(entries)
       /\ ~Satisfies(goals[a], entries[goals[a].completed_entry_id].weight)

\* C14: in every state between operations, the completed_at of every
\* completed goal is the recorded_at that the entry named by its
\* completed_entry_id has now.
C14_CompletedAtMatches ==
  \A g \in GoalIds(goals) :
    goals[g].status = "completed" =>
      /\ goals[g].completed_entry_id \in EntryIds(entries)
      /\ goals[g].completed_at =
           entries[goals[g].completed_entry_id].recorded_at

\* C15: when the weight of the entry that completed a goal is edited from a
\* value that satisfies the goal to one that does not, and no other entry is
\* eligible, the goal is active with null completion fields once the edit's
\* pass has run.
C15_EditReverts ==
  [][\A g \in GoalIds(goals) :
       (/\ lastOp'.kind = "update"
        /\ g \in CompletedBy(goals, lastOp'.id)
        /\ Satisfies(goals[g], entries[lastOp'.id].weight)
        /\ ~Satisfies(goals[g], entries'[lastOp'.id].weight)
        /\ EligibleSet(goals[g], entries', "update", lastOp'.id) = {}) =>
         IsActive(goals'[g])]_vars

\* C16: a pass for an edit or a delete runs only after the store has taken
\* the mutation: when the store rejects the update or the delete, no goal is
\* changed on its account.
C16_PassOnlyAfterStored ==
  [][(lastOp'.kind \in {"update", "delete"} /\ ~lastOp'.stored) =>
       goals' = goals]_vars

\* The goal is credited to an eligible entry although another eligible entry
\* was recorded earlier.
Miscredited(gs, es, g) ==
  /\ gs[g].status = "completed"
  /\ gs[g].completed_entry_id \in EntryIds(es)
  /\ EligibleFor(gs[g], es[gs[g].completed_entry_id])
  /\ \E j \in EntryIds(es) :
       /\ EligibleFor(gs[g], es[j])
       /\ es[j].recorded_at < es[gs[g].completed_entry_id].recorded_at

\* The goal is in the state the entries dictate: active when no entry is
\* eligible, credited to an earliest eligible entry otherwise.
InDictatedState(gs, es, g) ==
  LET set == {j \in EntryIds(es) : EligibleFor(gs[g], es[j])}
  IN  IF set = {} THEN IsActive(gs[g]) ELSE CreditedToEarliest(gs[g], es, set)

\* C17: when a creation whose Detector evaluated a stale active-goal
\* snapshot has left the goal credited to an entry that is not the earliest
\* eligible one, the next edit or delete of any entry leaves the goal in the
\* state its entries dictate.
C17_StaleCreditHeals ==
  [][(/\ lastOp.kind = "create"
      /\ lastOp.stale
      /\ Miscredited(goals, entries, lastOp.goal)
      /\ Len(entries') = Len(entries)
      /\ entries' # entries) =>
       InDictatedState(goals', entries', lastOp.goal)]_vars

\* The new entry of this step qualifies: there is an active goal with a
\* positive start weight whose direction predicate the entry's weight
\* satisfies.
Qualifies ==
  /\ activeGoal # Null
  /\ goals[activeGoal].start_weight > 0
  /\ Satisfies(goals[activeGoal], entries'[Len(entries')].weight)

\* The goals whose row this step has written.
Written == {g \in GoalIds(goals) : goals'[g] # goals[g]}

\* C18: an entry creation writes exactly one goal when the entry qualifies
\* and none otherwise; at most one goal becomes completed by it, and the new
\* entry is the completing entry of at most one goal.
C18_OneWritePerCreation ==
  [][CreateStep =>
       /\ Len(goals') = Len(goals)
       /\ Qualifies => /\ Written = {activeGoal}
                       /\ CompletedBy(goals', Len(entries')) = {activeGoal}
       /\ ~Qualifies => /\ Written = {}
                        /\ CompletedBy(goals', Len(entries')) = {}
       /\ Cardinality({g \in GoalIds(goals) :
                         /\ goals[g].status # "completed"
                         /\ goals'[g].status = "completed"}) <= 1]_vars

\* A creation has completed the active goal while an earlier goal, which the
\* new entry satisfies as well, stays completed by another entry.
C18_Witness ==
  /\ lastOp.kind = "create"
  /\ ~lastOp.idle
  /\ \E a, b \in GoalIds(goals) :
       /\ a # b
       /\ CompletedBy(goals, lastOp.id) = {b}
       /\ goals[a].status = "completed"
       /\ Satisfies(goals[a], entries[lastOp.id].weight)

\* The weights of the entries with the greatest recorded_at.
LatestWeights(es) ==
  {es[j].weight : j \in {i \in EntryIds(es) :
                           \A k \in EntryIds(es) :
                             es[k].recorded_at <= es[i].recorded_at}}

\* C19: goal creation creates no goal when the user has no entry or when the
\* target equals the weight of the entry with the latest recorded_at; a
\* created goal is active with null completion fields and the weight of an
\* entry with the greatest recorded_at as start_weight; every stored goal has
\* start_weight > 0 and start_weight # target_weight.
C19_GoalCreation ==
  /\ \A target \in Weights :
       \A latest \in getEntries(entries, 1), created_at \in Now(goals) :
         LET gs == setGoal(goals, entries, latest, target, created_at)
         IN  /\ (\/ EntryIds(entries) = {}
                 \/ LatestWeights(entries) = {target}) => gs = goals
             /\ gs # goals =>
                  /\ Len(gs) = Len(goals) + 1
                  /\ \A g \in GoalIds(goals) : gs[g] = goals[g]
                  /\ IsActive(gs[Len(gs)])
                  /\ gs[Len(gs)].target_weight = target
                  /\ gs[Len(gs)].start_weight \in LatestWeights(entries)
  /\ \A g \in GoalIds(goals) :
       /\ goals[g].start_weight > 0
       /\ goals[g].start_weight # goals[g].target_weight

\* A second goal has been created after the first was completed, with another
\* start weight than the first.
C19_Witness ==
  /\ Len(goals) = 2
  /\ goals[1].status = "completed"
  /\ IsActive(goals[2])
  /\ goals[2].start_weight # goals[1].start_weight
  /\ goals[2].start_weight \in LatestWeights(entries)
  /\ lastOp = NoRun

\* C20: creating a goal, and an entry creation whose Detector completes the
\* active goal, leave every already completed goal as it was (status,
\* completed_at, completed_entry_id) and remove no goal.
C20_HistoryKept ==
  [][(CreateStep \/ Len(goals') # Len(goals)) =>
       /\ Len(goals') >= Len(goals)
       /\ \A g \in GoalIds(goals) :
            goals[g].status = "completed" => goals'[g] = goals[g]]_vars

\* The Detector has completed the second goal while the first stays completed
\* by another entry: two completed goals, none active.
C20_Witness ==
  /\ lastOp.kind = "create"
  /\ Len(goals) = 2
  /\ ActiveGoals(goals) = {}
  /\ goals[2].completed_entry_id = lastOp.id
  /\ goals[1].completed_entry_id \in EntryIds(entries) \ {lastOp.id}

\* The goals a pass holds after its read of the completed goals.
ReadSet(task) == {task.read[i][1] : i \in DOMAIN task.read}

\* The goals a write task is still to write.
ToWrite(task) == {task.decisions[i].goal : i \in DOMAIN task.decisions}

\* The pass in flight task takes this step.
Steps(task) == task \in pending /\ task \notin pending'

\* C21: a pass for an affected entry writes only goals that were completed by
\* that entry when the pass read them and changes no entry; when no goal was
\* completed by the entry, it ends after the read of the goals, without
\* reading the entries and without a write.
C21_PassFrame ==
  [][\A task \in pending :
       /\ (Steps(task) /\ task.kind = "goals") =>
            /\ goals' = goals /\ entries' = entries
            /\ CompletedBy(goals, task.id) = {} => pending' = pending \ {task}
            /\ \A t \in pending' \ pending :
                 /\ t.kind = "entries" /\ t.id = task.id
                 /\ ReadSet(t) = CompletedBy(goals, task.id)
       /\ (Steps(task) /\ task.kind = "entries") =>
            /\ goals' = goals /\ entries' = entries
            /\ \A t \in pending' \ pending :
                 /\ t.kind = "writes" /\ t.id = task.id
                 /\ ToWrite(t) \subseteq ReadSet(task)
       /\ (Steps(task) /\ task.kind = "writes"
             /\ Head(task.decisions).action # "complete") =>
            /\ entries' = entries
            /\ \A g \in GoalIds(goals) :
                 g # Head(task.decisions).goal => goals'[g] = goals[g]
            /\ \A t \in pending' \ pending :
                 ToWrite(t) \subseteq ToWrite(task)]_vars

\* A pass is about to write the goal its entry completed while another goal,
\* completed by another entry, is in the store.
C21_Witness ==
  \E task \in pending :
    /\ task.kind = "writes"
    /\ Head(task.decisions).action # "complete"
    /\ Head(task.decisions).goal \in CompletedBy(goals, task.id)
    /\ \E g \in GoalIds(goals) :
         /\ goals[g].status = "completed"
         /\ goals[g].completed_entry_id # task.id

\* After this step's edit, entry id is the one earliest eligible entry of
\* goal g and its recorded_at is the goal's completed_at.
StillEarliest(g, id) ==
  LET set == EligibleSet(goals[g], entries', "update", id)
  IN  /\ id \in set
      /\ \A j \in set \ {id} : entries'[id].recorded_at < entries'[j].recorded_at
      /\ entries'[id].recorded_at = goals[g].completed_at

\* The entry selected for goal g by this step's pass for entry id differs
\* from the goal's completion fields as they were, in id or in recorded_at.
DetailsDiffer(g, id) ==
  LET sel == goals'[g].completed_entry_id
  IN  \/ sel # id
      \/ entries'[sel].recorded_at # goals[g].completed_at

\* C22: after an edit, a goal whose completing entry is still its earliest
\* eligible entry, with recorded_at equal to completed_at, is not written;
\* the pass issues a completion-detail write for a goal with eligible
\* entries exactly when the selected entry's id differs from
\* completed_entry_id or its recorded_at from completed_at.
C22_WriteOnlyOnChange ==
  [][(/\ lastOp'.kind = "update"
      /\ lastOp'.ran
      /\ ~lastOp'.readFailed
      /\ ~lastOp'.writeFailed) =>
       LET id == lastOp'.id
           aff == CompletedBy(goals, id)
           kept == {g \in aff :
                      EligibleSet(goals[g], entries', "update", id) # {}}
       IN  /\ \A g \in aff : StillEarliest(g, id) => goals'[g] = goals[g]
           /\ (aff # {} /\ \A g \in aff : StillEarliest(g, id)) =>
                lastOp'.writes = 0
           /\ lastOp'.writes =
                Cardinality(aff \ kept) +
                Cardinality({g \in kept : DetailsDiffer(g, id)})]_vars

\* An edit that changed the completing entry has run its pass, which issued
\* no write: the goal is still completed by that entry.
C22_Witness ==
  /\ lastOp.kind = "update"
  /\ lastOp.ran
  /\ ~lastOp.idle
  /\ ~lastOp.readFailed
  /\ ~lastOp.writeFailed
  /\ lastOp.writes = 0
  /\ CompletedBy(goals, lastOp.id) # {}

\* C23: the Detector decides against the active goal as the store holds it
\* when the entry is created: it writes no goal that is not active in the
\* store, and it completes the store's active goal when the new entry
\* satisfies it.
C23_DetectorReadsStore ==
  [][CreateStep =>
       /\ \A g \in GoalIds(goals) :
            goals'[g] # goals[g] => goals[g].status = "active"
       /\ \A g \in ActiveGoals(goals) :
            (/\ goals[g].start_weight > 0
             /\ Satisfies(goals[g], entries'[Len(entries')].weight)) =>
              CompletedBy(goals', Len(entries')) = {g}]_vars

\* C24: the eligible set of a pass is taken over all stored entries: an
\* affected goal with an eligible entry is credited to an earliest eligible
\* one after the pass, however many entries were recorded later.
C24_AllEntriesRead ==
  [][PassStep =>
       \A g \in CompletedBy(goals, lastOp'.id) :
         LET all == EligibleSet(goals[g], entries', lastOp'.kind, lastOp'.id)
         IN  all # {} =>
               /\ goals'[g].status = "completed"
               /\ goals'[g].completed_entry_id \in all
               /\ \A j \in all :
                    entries'[goals'[g].completed_entry_id].recorded_at
                      <= entries'[j].recorded_at]_vars

\* C25: the entry a pass selects for a goal is determined by the stored
\* entries alone: two passes for the goal's completing entry that get the same
\* rows from the store in different orders select the same entry.
C25_TieDeterministic ==
  \A g \in GoalIds(goals) :
    (/\ goals[g].status = "completed"
     /\ goals[g].completed_entry_id \in EntryIds(entries)) =>
      \A a, b \in getEntries(entries, RevalidationLimit) :
        LET id == goals[g].completed_entry_id
        IN  decide(goals[g], g, entries, a, entries[id]).entry
              = decide(goals[g], g, entries, b, entries[id]).entry

\* C26: a goal that is active in the store becomes completed only by the
\* Detector's write for a newly created entry whose weight satisfies it; no
\* goal creation and no write of a revalidation pass, in any interleaving,
\* completes an active goal.
C26_OnlyDetectorCompletes ==
  [][\A g \in GoalIds(goals) :
       (goals[g].status = "active" /\ goals'[g].status = "completed") =>
         \E task \in pending :
           /\ Steps(task)
           /\ task.kind = "writes"
           /\ Head(task.decisions).action = "complete"
           /\ Satisfies(goals[g], task.row.weight)
           /\ goals'[g].completed_entry_id = task.id]_vars

\* C27: when the read of the completed goals or the read of the entries
\* fails in a pass, the pass issues no goal write and every goal keeps the
\* state it had before.
C27_ReadFailureStops ==
  [][(/\ lastOp'.kind \in {"update", "delete"}
      /\ lastOp'.ran
      /\ lastOp'.readFailed) =>
       /\ goals' = goals
       /\ lastOp'.writes = 0]_vars

\* A read failed in the pass of an edit: the goal is still completed by the
\* edited entry, whose stored weight no longer satisfies it.
C27_Witness ==
  /\ lastOp.kind = "update"
  /\ lastOp.ran
  /\ lastOp.stored
  /\ lastOp.readFailed
  /\ \E g \in CompletedBy(goals, lastOp.id) :
       ~Satisfies(goals[g], entries[lastOp.id].weight)

\* C28: in every state, no goal names a deleted entry as completed_entry_id:
\* every completed goal's completed_entry_id is an entry that exists, also
\* after the delete of an entry and its pass, and also when a completed goal
\* stands beside a newer active one.
C28_CompletingEntryExists ==
  /\ \A g \in GoalIds(goals) :
       goals[g].status = "completed" =>
         goals[g].completed_entry_id \in EntryIds(entries)
  /\ \A i \in 1..Len(entries) : ~entries[i].live => ~Referenced(goals, i)

\* An entry has been deleted and no handler is in flight; a completed goal
\* stands beside a newer active goal.
C28_Witness ==
  /\ pending = {}
  /\ \E i \in 1..Len(entries) : ~entries[i].live
  /\ Len(goals) = 2
  /\ goals[1].status = "completed"
  /\ goals[2].status = "active"

\* C29: in every state the three lifecycle fields of a goal agree: the
\* status is active exactly when completed_at is null and exactly when
\* completed_entry_id is null.
C29_LifecycleCoherent ==
  \A g \in GoalIds(goals) :
    /\ goals[g].status \in {"active", "completed"}
    /\ (goals[g].status = "active") <=> (goals[g].completed_at = Null)
    /\ (goals[g].status = "active") <=> (goals[g].completed_entry_id = Null)

\* A pass has reverted the only goal, which its edited or deleted entry had
\* completed: it is active with null completion fields.
C29_Witness ==
  /\ lastOp.kind \in {"update", "delete"}
  /\ ~lastOp.idle
  /\ Len(goals) = 1
  /\ IsActive(goals[1])

\* This step is the last write of the pass task, no other handler is in
\* flight, and the entry of the pass has been edited again since the edit
\* that started it (the pass of that later edit has finished).
LastWriteOfSuperseded(task) ==
  /\ Steps(task)
  /\ pending' = {}
  /\ task.kind = "writes"
  /\ Head(task.decisions).action # "complete"
  /\ task.row.live
  /\ task.id \in EntryIds(entries)
  /\ entries[task.id] # task.row

\* C30: after two successive edits of an entry whose passes interleave, once
\* both passes have finished, a goal the passes treated is in the state the
\* finally stored entries dictate: credited to an earliest eligible entry, or
\* active if there is none.
C30_LastEditWins ==
  [][\A task \in pending :
       LET g == Head(task.decisions).goal
       IN  (LastWriteOfSuperseded(task) /\ ActiveGoals(goals) \subseteq {g}) =>
             InDictatedState(goals', entries', g)]_vars

====
